---- MODULE Spec2Model ----
(***************************************************************************)
(* Verification model of the SetAutoEncoder repository.                    *)
(*                                                                         *)
(*   - OneCycleSchedule / OneCycleAdamW                                    *)
(*       src/models/optimisers/one_cycle_adam.py                           *)
(*   - prob_chamfer_distance                                               *)
(*       src/models/functions/prob_chamfer_distance.py                     *)
(*   - sample_prior_batch                                                  *)
(*       src/models/set_ae.py, src/models/set_autoencoder.py               *)
(*   - the model's call / encode_set (mask, latent)                        *)
(*       src/models/set_vae_v2.py                                          *)
(*   - MnistVariationalAutoencoder: checkpoint loading, training and       *)
(*     evaluation steps, size predictor loss                               *)
(*       src/mnist_vae.py                                                  *)
(*                                                                         *)
(* Real numbers are exact rationals [kind, num, den]; the non-finite       *)
(* results of a division by zero are kept as values of their own kind.     *)
(***************************************************************************)
EXTENDS Integers, Sequences, FiniteSets

VARIABLES
    \* ---- OneCycleAdamW / OneCycleSchedule
    opt_pc,            \* "none" before construction, "built" after, "failed" once a step raised
    cycle_length,      \* the constructor's argument
    warmup_end_step,   \* self._warmup_end_step
    max_end_step,      \* self._max_end_step
    decay_end_step,    \* self._decay_end_step
    iterations,        \* the optimizer's iteration counter (self.iterations)
    lr_factor,         \* one_cycle_schedule(self.iterations) of the last update
    beta_1,            \* one_cycle_schedule.get_momentum(self.iterations) of the last update
    beta_2,            \* the second-moment coefficient
    \* ---- a batch and prob_chamfer_distance
    sizes,             \* the batch's Sizes, one per item
    elem_log_prob,     \* [b][i][j]: set_dists.log_prob of target element i under predicted element j
    ch_pc,             \* "input" before prob_chamfer_distance is called on the batch, "done" after
    loss,              \* the returned per-item distances
    op,                \* how the batch was obtained: "fresh", "perturb" (padding changed), "permute"
    prev_loss,         \* the distances returned for the batch it was obtained from
    \* ---- sample_prior_batch
    pr_pc,             \* "start" before sample_prior_batch, "done" after
    sampled_elements,  \* the flat samples the prior drew
    padded_samples,    \* the returned [B, max_set_size] tensor
    \* ---- the model's call / encode_set
    mk_pc,             \* "start" before the mask is derived, "done" after
    masked_values,     \* [b][p]: 1 where position p of item b is masked out, else 0
    \* ---- MnistVariationalAutoencoder: training and evaluation steps
    tr_pc,             \* "idle", or "ready" once the trainer is constructed
    params,            \* [partition]: "finite" or "nan", the values of its weights
    updates,           \* [partition]: the number of gradient updates written to it
    moments,           \* [optimiser][partition]: "none", "finite" or "nan", its moment slots
    adam_iterations,   \* [optimiser]: iteration counter of the two plain Adam instances
    last_step,         \* the step that ran last: "none", "train_vae", "train_size", "eval_vae"
    step_status,       \* "none", "returned" (the step returned its loss) or "raised"
    chamfer_dst,       \* the mean Chamfer loss of the last forward pass
    kl_losses,         \* self.vae.losses of the last forward pass: weight * KL
    model_loss,        \* the scalar the step returned (and differentiated)
    encoded_from,      \* "mode" or "sample": how call obtained the latent, "none" before
    \* ---- MnistVariationalAutoencoder.__init__: checkpoint loading
    ck_pc,             \* "start", "loaded" or "failed"
    load_step,         \* the requested step, -1 for the latest
    run_folders,       \* the run directories' names, in os.scandir order
    step_ckpnts,       \* the step directories' names of the latest run, in os.scandir order
    latest_run,        \* the run directory chosen
    step_folder,       \* the step directory chosen
    \* ---- size_predictor_loss
    sp_pc,             \* "start" before size_predictor_loss, "done" after
    pred_sizes,        \* [b][k]: the predicted weight of Size k (the softmax output)
    one_hot_sizes,     \* the cross-entropy targets
    target_prob,       \* [b]: sum_k one_hot_sizes[b][k] * pred_sizes[b][k]
    predicted_sizes    \* the returned predicted Sizes

schedVars == <<opt_pc, cycle_length, warmup_end_step, max_end_step, decay_end_step,
               iterations, lr_factor, beta_1, beta_2>>

chamferVars == <<elem_log_prob, ch_pc, loss, op, prev_loss>>

priorVars == <<pr_pc, sampled_elements, padded_samples>>

maskVars == <<mk_pc, masked_values>>

trainVars == <<tr_pc, params, updates, moments, adam_iterations, last_step,
               step_status, chamfer_dst, kl_losses, model_loss, encoded_from>>

ckptVars == <<ck_pc, load_step, run_folders, step_ckpnts, latest_run, step_folder>>

sizePredVars == <<sp_pc, pred_sizes, one_hot_sizes, target_prob, predicted_sizes>>

\* the state of the trainer and of the model's call
trainerVars == <<maskVars, trainVars, ckptVars, sizePredVars>>

vars == <<schedVars, sizes, chamferVars, priorVars, trainerVars>>

----------------------------------------------------------------------------
(* Bounds of the model *)

\* largest cycle_length a schedule is constructed with
MaxCycle == 20
\* number of steps taken past decay_end_step (the open-ended tail)
TailSteps == 2
\* number of items of a batch
BatchSize == 2
\* max_size / max_set_size: the padded length of every set
MaxSetSize == 2
\* pairwise log-likelihoods are drawn from 0..MaxScore
MaxScore == 1

\* config.pad_value
PadValue == -1
\* the values a sample of the prior's base distribution takes in the model
SampleValues == {0, 1, 2}

----------------------------------------------------------------------------
(* Exact arithmetic on the values a float expression can take *)

Abs(x) == IF x < 0 THEN -x ELSE x

RECURSIVE GCD(_, _)
GCD(a, b) == IF b = 0 THEN a ELSE GCD(b, a % b)

\* the rational n/d (d > 0) in lowest terms
Num(n, d) ==
    LET g == GCD(Abs(n), d)
    IN  [kind |-> "num", num |-> n \div g, den |-> d \div g]

NaN == [kind |-> "nan", num |-> 0, den |-> 1]
Inf == [kind |-> "inf", num |-> 0, den |-> 1]
\* a Python exception (ZeroDivisionError) instead of a value
Err == [kind |-> "err", num |-> 0, den |-> 1]

Const(n, d) == Num(n, d)

IsNum(a) == a.kind = "num"

\* kind of the result of an arithmetic operation with a non-finite operand
Propagate(a, b) ==
    IF a.kind = "err" \/ b.kind = "err" THEN Err
    ELSE IF a.kind = "nan" \/ b.kind = "nan" THEN NaN
    ELSE Inf

RAdd(a, b) ==
    IF IsNum(a) /\ IsNum(b) THEN Num(a.num * b.den + b.num * a.den, a.den * b.den)
    ELSE Propagate(a, b)

RSub(a, b) ==
    IF IsNum(a) /\ IsNum(b) THEN Num(a.num * b.den - b.num * a.den, a.den * b.den)
    ELSE Propagate(a, b)

RMul(a, b) ==
    IF IsNum(a) /\ IsNum(b) THEN Num(a.num * b.num, a.den * b.den)
    ELSE Propagate(a, b)

RECURSIVE RPow(_, _)
RPow(a, k) ==
    IF ~IsNum(a) THEN a
    ELSE IF k = 0 THEN Num(1, 1)
    ELSE RMul(a, RPow(a, k - 1))

\* a / b on an integer tensor and a Python int: tf casts to float, x/0 is nan or inf
TfDiv(a, b) ==
    IF b = 0 THEN (IF a = 0 THEN NaN ELSE Inf)
    ELSE IF b < 0 THEN Num(-a, -b)
    ELSE Num(a, b)

\* a / b on two Python ints: raises ZeroDivisionError when b = 0
PyDiv(a, b) ==
    IF b = 0 THEN Err
    ELSE IF b < 0 THEN Num(-a, -b)
    ELSE Num(a, b)

REq(a, b) == IsNum(a) /\ IsNum(b) /\ a.num * b.den = b.num * a.den
RLeq(a, b) == IsNum(a) /\ IsNum(b) /\ a.num * b.den <= b.num * a.den

----------------------------------------------------------------------------
(* Dense and ragged tensors *)

RECURSIVE SumSeq(_)
SumSeq(s) == IF s = <<>> THEN 0 ELSE Head(s) + SumSeq(Tail(s))

\* tf.reduce_max over a non-empty sequence of numbers
SeqMax(s) == CHOOSE m \in {s[k] : k \in DOMAIN s} : \A k \in DOMAIN s : s[k] <= m

\* the concatenation of a sequence of sequences
RECURSIVE Concat(_)
Concat(ss) == IF ss = <<>> THEN <<>> ELSE Head(ss) \o Concat(Tail(ss))

\* tf.repeat(values, repeats): values[k] repeated repeats[k] times
Repeat(values, repeats) ==
    Concat([k \in DOMAIN values |-> [r \in 1..repeats[k] |-> values[k]]])

\* row_splits[r]: the number of values before row r of a partition with these lengths
RowStart(lengths, r) == SumSeq(SubSeq(lengths, 1, r - 1))

\* RaggedTensor.from_row_lengths(values, row_lengths)
FromRowLengths(values, row_lengths) ==
    [values |-> values, row_lengths |-> row_lengths]

\* row r of a ragged tensor of ragged rank 1
RaggedRow(rt, r) ==
    SubSeq(rt.values, RowStart(rt.row_lengths, r) + 1,
           RowStart(rt.row_lengths, r) + rt.row_lengths[r])

\* RaggedTensor.to_tensor(default_value, shape = [nrows, ncols]): rows are cut
\* or filled to ncols
ToTensor(rt, default_value, nrows, ncols) ==
    [b \in 1..nrows |->
        [p \in 1..ncols |->
            IF b <= Len(rt.row_lengths) /\ p <= rt.row_lengths[b]
            THEN RaggedRow(rt, b)[p]
            ELSE default_value]]

\* RaggedTensor.from_nested_row_lengths(flat_values, (outer, inner)): item b
\* holds outer[b] rows, row r holds inner[r] values
FromNestedRowLengths(flat_values, outer, inner) ==
    [flat_values |-> flat_values, outer |-> outer, inner |-> inner, error |-> FALSE]

\* from_tensor raises: the mask of the lengths does not fit the tensor
ShapeError == [flat_values |-> <<>>, outer |-> <<>>, inner |-> <<>>, error |-> TRUE]

\* the first of the rows of item b, less one
ItemRowStart(rt, b) == RowStart(rt.outer, b)

\* the values of row r (counted over the whole batch)
InnerRow(rt, r) ==
    SubSeq(rt.flat_values, RowStart(rt.inner, r) + 1, RowStart(rt.inner, r) + rt.inner[r])

\* to_tensor(default_value = False) of the all-True ragged tensor with these
\* nested row lengths: its shape is [B, max(outer), max(inner)]
DenseRaggedMask(outer, inner) ==
    [b \in DOMAIN outer |->
        [i \in 1..SeqMax(outer) |->
            [j \in 1..SeqMax(inner) |->
                /\ i <= outer[b]
                /\ j <= inner[RowStart(outer, b) + i]]]]

\* the shape <<B, rows, cols>> of a dense rank-3 tensor
Shape3(t) == <<Len(t), Len(t[1]), Len(t[1][1])>>

\* tf.boolean_mask(tensor, mask): the values where mask holds, in row-major order
BooleanMask(tensor, mask) ==
    LET shp == Shape3(tensor)
        cells == [k \in 1..(shp[1] * shp[2] * shp[3]) |->
                    <<((k - 1) \div (shp[2] * shp[3])) + 1,
                      (((k - 1) \div shp[3]) % shp[2]) + 1,
                      ((k - 1) % shp[3]) + 1>>]
        kept == SelectSeq(cells, LAMBDA c : mask[c[1]][c[2]][c[3]])
    IN  [k \in 1..Len(kept) |-> tensor[kept[k][1]][kept[k][2]][kept[k][3]]]

\* faulty variant: no lengths are given, every row and column of the trimmed
\* tensor is kept
FromTensorUnmasked(tensor, outer, inner) ==
    FromNestedRowLengths(
        BooleanMask(tensor,
                    [b \in 1..Len(tensor) |->
                        [i \in 1..Len(tensor[1]) |->
                            [j \in 1..Len(tensor[1][1]) |-> TRUE]]]),
        [b \in 1..Len(tensor) |-> Len(tensor[1])],
        [r \in 1..(Len(tensor) * Len(tensor[1])) |-> Len(tensor[1][1])])

\* RaggedTensor.from_tensor(tensor, lengths = (outer, inner)); the mask and the
\* tensor must have the same shape
FromTensor(tensor, outer, inner) ==
    IF Shape3(DenseRaggedMask(outer, inner)) # Shape3(tensor)
    THEN ShapeError
    ELSE FromNestedRowLengths(BooleanMask(tensor, DenseRaggedMask(outer, inner)),
                              outer, inner)

\* faulty variant: row i of an item is scored against element i alone
ReduceDiagonal(rt) ==
    LET itemOf(r) == CHOOSE b \in DOMAIN rt.outer :
                        ItemRowStart(rt, b) < r /\ r <= ItemRowStart(rt, b) + rt.outer[b]
    IN  FromRowLengths(
            [r \in 1..Len(rt.inner) |-> InnerRow(rt, r)[r - ItemRowStart(rt, itemOf(r))]],
            rt.outer)

\* tf.reduce_max(rt, axis = -1): the maximum of every row
ReduceMaxLast(rt) ==
    FromRowLengths([r \in 1..Len(rt.inner) |-> SeqMax(InnerRow(rt, r))], rt.outer)

\* tf.reduce_max(rt, axis = -2): per item the maximum over its rows, position
\* by position; the result is as long as the item's longest row
ReduceMaxRows(rt) ==
    LET rowsOf(b) == (ItemRowStart(rt, b) + 1)..(ItemRowStart(rt, b) + rt.outer[b])
        width(b) == SeqMax([k \in 1..rt.outer[b] |-> rt.inner[ItemRowStart(rt, b) + k]])
        column(b, c) == {r \in rowsOf(b) : c <= rt.inner[r]}
        colMax(b, c) ==
            CHOOSE m \in {InnerRow(rt, r)[c] : r \in column(b, c)} :
                \A r \in column(b, c) : InnerRow(rt, r)[c] <= m
    IN  FromRowLengths(
            Concat([b \in DOMAIN rt.outer |-> [c \in 1..width(b) |-> colMax(b, c)]]),
            [b \in DOMAIN rt.outer |-> width(b)])

\* faulty variant: tf.reduce_sum in place of tf.reduce_mean
ReduceSumLast(rt) ==
    [b \in DOMAIN rt.row_lengths |-> Num(SumSeq(RaggedRow(rt, b)), 1)]

\* tf.reduce_mean(rt, axis = -1) of a ragged tensor of ragged rank 1
ReduceMeanLast(rt) ==
    [b \in DOMAIN rt.row_lengths |-> TfDiv(SumSeq(RaggedRow(rt, b)), rt.row_lengths[b])]

----------------------------------------------------------------------------
(* prob_chamfer_distance *)

Batch == 1..BatchSize
Scores == 0..MaxScore

\* set_dists.log_prob(set_row[i]): for every item, the log-likelihood of its
\* target element i under each of its predicted elements
SetProb(elp, i) == [b \in DOMAIN elp |-> [j \in 1..Len(elp[b][i]) |-> elp[b][i][j]]]

\* tf.stack(probs, axis = -2), reshaped to [batch, max_size, max_size]
StackProbs(probs, max_size) ==
    [b \in DOMAIN probs[1] |-> [i \in 1..max_size |-> probs[i][b]]]

\* log_probs[:, :largest_unpadded_dim, :largest_unpadded_dim]
Trim(log_probs, largest_unpadded_dim) ==
    [b \in DOMAIN log_probs |->
        [i \in 1..largest_unpadded_dim |->
            [j \in 1..largest_unpadded_dim |-> log_probs[b][i][j]]]]

\* faulty variant: every row keeps the width of the trimmed tensor
RowSizesUntrimmed(sizes_flat) ==
    Repeat([b \in DOMAIN sizes_flat |-> SeqMax(sizes_flat)], sizes_flat)

\* tf.repeat(sizes_flat, sizes_flat)
RowSizes(sizes_flat) == Repeat(sizes_flat, sizes_flat)

\* faulty variants: both reductions over the same axis
DistanceAToBOverRows(rt) == ReduceMeanLast(ReduceMaxRows(rt))
DistanceBToAOverLast(rt) == ReduceMeanLast(ReduceMaxLast(rt))

\* the a -> b and b -> a reductions and their means
DistanceAToB(rt) == ReduceMeanLast(ReduceMaxLast(rt))
DistanceBToA(rt) == ReduceMeanLast(ReduceMaxRows(rt))

ProbChamferDistance(elp, sizes_in, max_size) ==
    LET probs == [i \in 1..max_size |-> SetProb(elp, i)]
        log_probs == StackProbs(probs, max_size)
        sizes_flat == sizes_in
        largest_unpadded_dim == SeqMax(sizes_flat)
        log_probs_trimmed == Trim(log_probs, largest_unpadded_dim)
        row_sizes == RowSizes(sizes_flat)
        ragged == FromTensor(log_probs_trimmed, sizes_flat, row_sizes)
    IN  IF ragged.error
        THEN [b \in DOMAIN sizes_in |-> Err]
        ELSE [b \in DOMAIN sizes_in |->
                 RAdd(DistanceAToB(ragged)[b], DistanceBToA(ragged)[b])]

NoLoss == <<>>

IdleBatch == sizes = [b \in Batch |-> 1]

IdleChamfer ==
    /\ elem_log_prob = <<>>
    /\ ch_pc = "idle"
    /\ loss = NoLoss
    /\ op = "fresh"
    /\ prev_loss = NoLoss

InitChamfer ==
    /\ sizes \in [Batch -> 1..MaxSetSize]
    /\ elem_log_prob \in [Batch -> [1..MaxSetSize -> [1..MaxSetSize -> Scores]]]
    /\ ch_pc = "input"
    /\ loss = NoLoss
    /\ op = "fresh"
    /\ prev_loss = NoLoss

\* the loss is computed for the batch
CallProbChamferDistance ==
    /\ ch_pc = "input"
    /\ loss' = ProbChamferDistance(elem_log_prob, sizes, MaxSetSize)
    /\ ch_pc' = "done"
    /\ UNCHANGED <<sizes, elem_log_prob, op, prev_loss>>
    /\ UNCHANGED <<schedVars, priorVars, trainerVars>>

\* position (i, j) of item b is in a padded row or a padded column
Padded(b, i, j) == i > sizes[b] \/ j > sizes[b]

\* the next batch differs from this one in one score of a padded target or
\* prediction element
PerturbPadding ==
    /\ ch_pc = "done"
    /\ \E b \in Batch, i \in 1..MaxSetSize, j \in 1..MaxSetSize, v \in Scores :
          /\ Padded(b, i, j)
          /\ v # elem_log_prob[b][i][j]
          /\ elem_log_prob' = [elem_log_prob EXCEPT ![b][i][j] = v]
    /\ prev_loss' = loss
    /\ op' = "perturb"
    /\ ch_pc' = "input"
    /\ UNCHANGED <<sizes, loss>>
    /\ UNCHANGED <<schedVars, priorVars, trainerVars>>

\* the permutations of 1..n, as functions on 1..MaxSetSize that fix the rest
ValidPermutations(n) ==
    {f \in [1..MaxSetSize -> 1..MaxSetSize] :
        /\ \A k \in 1..MaxSetSize : k > n => f[k] = k
        /\ \A k, l \in 1..MaxSetSize : f[k] = f[l] => k = l}

\* the next batch holds the valid target elements of one item in another
\* order and, independently, its valid predicted elements in another order
PermuteValid ==
    /\ ch_pc = "done"
    /\ \E b \in Batch :
          \E pt \in ValidPermutations(sizes[b]), pp \in ValidPermutations(sizes[b]) :
              /\ (\E k \in 1..MaxSetSize : pt[k] # k \/ pp[k] # k)
              /\ elem_log_prob' =
                    [elem_log_prob EXCEPT
                        ![b] = [i \in 1..MaxSetSize |->
                                  [j \in 1..MaxSetSize |-> elem_log_prob[b][pt[i]][pp[j]]]]]
    /\ prev_loss' = loss
    /\ op' = "permute"
    /\ ch_pc' = "input"
    /\ UNCHANGED <<sizes, loss>>
    /\ UNCHANGED <<schedVars, priorVars, trainerVars>>

NextChamfer == CallProbChamferDistance \/ PerturbPadding \/ PermuteValid

----------------------------------------------------------------------------
(* sample_prior_batch *)

\* self._prior(total_elements): total_elements samples of the base distribution
Prior(total_elements) == [1..total_elements -> SampleValues]

\* sample_prior: the prior is asked for reduce_sum(sizes) samples
SamplePrior(sizes_in) == Prior(SumSeq(sizes_in))

\* faulty variant: to_tensor without default_value fills with zero
ScatterSamplesZeroFill(samples, sizes_in, pad_value, max_set_size) ==
    ToTensor(FromRowLengths(samples, sizes_in), 0, Len(sizes_in), max_set_size)

\* the scatter of the flat samples into the padded [B, max_set_size] layout
ScatterSamples(samples, sizes_in, pad_value, max_set_size) ==
    ToTensor(FromRowLengths(samples, sizes_in), pad_value, Len(sizes_in), max_set_size)

IdlePrior ==
    /\ pr_pc = "idle"
    /\ sampled_elements = <<>>
    /\ padded_samples = <<>>

InitPrior ==
    /\ sizes \in [Batch -> 1..MaxSetSize]
    /\ pr_pc = "start"
    /\ sampled_elements = <<>>
    /\ padded_samples = <<>>

SamplePriorBatch ==
    /\ pr_pc = "start"
    /\ \E s \in SamplePrior(sizes) :
          /\ sampled_elements' = s
          /\ padded_samples' = ScatterSamples(s, sizes, PadValue, MaxSetSize)
    /\ pr_pc' = "done"
    /\ UNCHANGED <<sizes, schedVars, chamferVars, trainerVars>>

\* the next batch arrives; the seeds of the last forward pass are dropped
NextBatch ==
    /\ pr_pc = "done"
    /\ \E sz \in [Batch -> 1..MaxSetSize] : sizes' = sz
    /\ pr_pc' = "start"
    /\ sampled_elements' = <<>>
    /\ padded_samples' = <<>>
    /\ UNCHANGED <<schedVars, chamferVars, trainerVars>>

NextPrior == SamplePriorBatch \/ NextBatch

----------------------------------------------------------------------------
(* OneCycleSchedule *)

\* int(cycle_length * f) for f = tenths/10: Python truncates the float product
IntOfTenths(cl, tenths) ==
    IF cl >= 0 THEN (cl * tenths) \div 10 ELSE -((-cl * tenths) \div 10)

WarmupEnd(cl) == IntOfTenths(cl, 1)
MaxEnd(cl) == WarmupEnd(cl) + IntOfTenths(cl, 3)
DecayEnd(cl) == MaxEnd(cl) + IntOfTenths(cl, 6)

\* the branch tf.case runs: the first predicate that is true, else the default
Phase(step) ==
    IF step <= warmup_end_step THEN "warmup"
    ELSE IF step <= max_end_step THEN "max_lr"
    ELSE IF step <= decay_end_step THEN "initial_decay"
    ELSE "final_decay"

\* __call__: the four branch functions
LrWarmup(step) ==
    RAdd(Const(1, 10), RMul(Const(9, 10), TfDiv(step, warmup_end_step)))

LrMax == Const(1, 1)

LrInitialDecay(step) ==
    LET decay_step == step - max_end_step
    IN  RSub(Const(1, 1),
             RMul(Const(9, 10), TfDiv(decay_step, decay_end_step - max_end_step)))

LrFinalDecay(step) ==
    LET final_step == step - decay_end_step
    IN  RMul(Const(1, 10),
             RPow(RSub(Const(1, 1), PyDiv(1, decay_end_step)), final_step))

Schedule(step) ==
    CASE Phase(step) = "warmup" -> LrWarmup(step)
      [] Phase(step) = "max_lr" -> LrMax
      [] Phase(step) = "initial_decay" -> LrInitialDecay(step)
      [] OTHER -> LrFinalDecay(step)

\* get_momentum: the four branch functions
MomWarmup(step) ==
    RSub(Const(95, 100), RMul(Const(1, 10), TfDiv(step, warmup_end_step)))

MomMax == Const(85, 100)

MomInitialDecay(step) ==
    LET decay_step == step - max_end_step
    IN  RAdd(Const(85, 100),
             RMul(Const(1, 10), TfDiv(decay_step, decay_end_step - max_end_step)))

MomFinal == Const(95, 100)

GetMomentum(step) ==
    CASE Phase(step) = "warmup" -> MomWarmup(step)
      [] Phase(step) = "max_lr" -> MomMax
      [] Phase(step) = "initial_decay" -> MomInitialDecay(step)
      [] OTHER -> MomFinal

----------------------------------------------------------------------------
(* OneCycleAdamW: construction and one optimizer update *)

InitSchedule ==
    /\ opt_pc = "none"
    /\ cycle_length = 0
    /\ warmup_end_step = 0
    /\ max_end_step = 0
    /\ decay_end_step = 0
    /\ iterations = 0
    /\ lr_factor = Const(0, 1)
    /\ beta_1 = Const(0, 1)
    /\ beta_2 = Const(0, 1)

\* OneCycleAdamW(learning_rate, weight_decay, cl)
NewOneCycleAdamW ==
    /\ opt_pc = "none"
    /\ \E cl \in 1..MaxCycle :
          /\ cycle_length' = cl
          /\ warmup_end_step' = WarmupEnd(cl)
          /\ max_end_step' = MaxEnd(cl)
          /\ decay_end_step' = DecayEnd(cl)
    /\ beta_2' = Const(99, 100)
    /\ opt_pc' = "built"
    /\ UNCHANGED <<iterations, lr_factor, beta_1>>
    /\ UNCHANGED <<sizes, chamferVars, priorVars, trainerVars>>

\* one apply_gradients: the lr, wd and momentum lambdas read self.iterations,
\* then the counter advances; a Python exception leaves the counter alone
ApplyGradients ==
    /\ opt_pc = "built"
    /\ iterations < decay_end_step + TailSteps
    /\ LET lr == Schedule(iterations)
           mom == GetMomentum(iterations)
       IN  IF lr.kind = "err" \/ mom.kind = "err"
           THEN /\ opt_pc' = "failed"
                /\ UNCHANGED <<iterations, lr_factor, beta_1>>
           ELSE /\ lr_factor' = lr
                /\ beta_1' = mom
                /\ iterations' = iterations + 1
                /\ opt_pc' = opt_pc
    /\ UNCHANGED <<cycle_length, warmup_end_step, max_end_step, decay_end_step, beta_2>>
    /\ UNCHANGED <<sizes, chamferVars, priorVars, trainerVars>>

NextSchedule == NewOneCycleAdamW \/ ApplyGradients

----------------------------------------------------------------------------
(* MnistVariationalAutoencoder: the optimizers and the training steps *)

\* most training and evaluation steps of one run of the model
MaxTrainSteps == 3
\* the mean Chamfer loss and the size loss of a step are drawn from 0..MaxLoss
MaxLoss == 1
\* the KL divergence of the latent of a step is drawn from 0..MaxKl
MaxKl == 1

\* the cycle length the reconstruction optimiser is constructed with
ReconstructionCycleLength == 200000
\* KLDivergenceRegularizer(_latent_prior, weight=1.0)
KLWeight == 1

\* get_autoencoder_weights, get_prior_weights, get_size_predictor_weights
Partitions == {"autoencoder", "prior", "size_predictor"}

\* the three optimizer instances of the trainer
Optimisers == {"reconstruction_optimiser", "prior_optimiser", "size_pred_optimiser"}

\* the partitions an optimizer instance holds moments for
Slots(o) == {p \in Partitions : moments[o][p] # "none"}

\* the steps run so far
StepsTaken == iterations + adam_iterations["prior_optimiser"]
                  + adam_iterations["size_pred_optimiser"]

IdleTrain ==
    /\ tr_pc = "idle"
    /\ params = [p \in Partitions |-> "finite"]
    /\ updates = [p \in Partitions |-> 0]
    /\ moments = [o \in Optimisers |-> [p \in Partitions |-> "none"]]
    /\ adam_iterations = [o \in Optimisers \ {"reconstruction_optimiser"} |-> 0]
    /\ last_step = "none"
    /\ step_status = "none"
    /\ chamfer_dst = Const(0, 1)
    /\ kl_losses = Const(0, 1)
    /\ model_loss = Const(0, 1)
    /\ encoded_from = "none"

\* __init__: the model is built and the three optimizers are constructed
InitTrainer ==
    /\ tr_pc = "ready"
    /\ params = [p \in Partitions |-> "finite"]
    /\ updates = [p \in Partitions |-> 0]
    /\ moments = [o \in Optimisers |-> [p \in Partitions |-> "none"]]
    /\ adam_iterations = [o \in Optimisers \ {"reconstruction_optimiser"} |-> 0]
    /\ last_step = "none"
    /\ step_status = "none"
    /\ chamfer_dst = Const(0, 1)
    /\ kl_losses = Const(0, 1)
    /\ model_loss = Const(0, 1)
    /\ encoded_from = "none"
    /\ opt_pc = "built"
    /\ cycle_length = ReconstructionCycleLength
    /\ warmup_end_step = WarmupEnd(ReconstructionCycleLength)
    /\ max_end_step = MaxEnd(ReconstructionCycleLength)
    /\ decay_end_step = DecayEnd(ReconstructionCycleLength)
    /\ iterations = 0
    /\ lr_factor = Const(0, 1)
    /\ beta_1 = Const(0, 1)
    /\ beta_2 = Const(99, 100)

\* the value of a forward pass: not a number once a weight it reads is not
ForwardValue(value, finite, read) ==
    IF finite /\ \A p \in read : params[p] = "finite" THEN value ELSE NaN

\* the Adam moments of a partition after an update with this gradient
MomentsAfter(o, p, grad) ==
    IF IsNum(grad) /\ moments[o][p] # "nan" THEN "finite" ELSE "nan"

\* optimiser.apply_gradients(zip(grads, weights of partition p)): the moments
\* of p are created or updated, the weights are written, the optimizer's
\* iteration counter advances
ApplyGradientsTo(o, p, grad) ==
    /\ moments' = [moments EXCEPT ![o][p] = MomentsAfter(o, p, grad)]
    /\ params' = [params EXCEPT
                    ![p] = IF @ = "finite" /\ MomentsAfter(o, p, grad) = "finite"
                           THEN "finite" ELSE "nan"]
    /\ updates' = [updates EXCEPT ![p] = @ + 1]
    /\ IF o = "reconstruction_optimiser"
       THEN /\ lr_factor' = Schedule(iterations)
            /\ beta_1' = GetMomentum(iterations)
            /\ iterations' = iterations + 1
            /\ UNCHANGED adam_iterations
       ELSE /\ adam_iterations' = [adam_iterations EXCEPT ![o] = @ + 1]
            /\ UNCHANGED <<iterations, lr_factor, beta_1>>
    /\ UNCHANGED <<opt_pc, cycle_length, warmup_end_step, max_end_step, decay_end_step,
                   beta_2>>

\* the model's call: the latent is the mode of the encoder's distribution in
\* eval_mode and a sample otherwise
Encoded(eval_mode) == IF eval_mode THEN "mode" ELSE "sample"

\* reconstruction_loss: the mean of chamfer_distance_smoothed over the batch;
\* the losses the encoder registered (self.vae.losses) are not read
ReconstructionLoss(chamfer, kl) == chamfer

\* train_vae_step: forward pass with a sampled latent, gradient of model_loss
\* with respect to the autoencoder weights, one update by the
\* reconstruction optimiser
TrainVaeStep ==
    /\ tr_pc = "ready"
    /\ StepsTaken < MaxTrainSteps
    /\ \E c \in 0..MaxLoss, k \in 0..MaxKl, finite \in BOOLEAN :
          LET chamfer == ForwardValue(Num(c, 1), finite, {"autoencoder"})
              kl == ForwardValue(Num(KLWeight * k, 1), finite, {"autoencoder"})
          IN  /\ encoded_from' = Encoded(FALSE)
              /\ chamfer_dst' = chamfer
              /\ kl_losses' = kl
              /\ model_loss' = ReconstructionLoss(chamfer, kl)
              /\ ApplyGradientsTo("reconstruction_optimiser", "autoencoder",
                                  ReconstructionLoss(chamfer, kl))
    /\ last_step' = "train_vae"
    /\ step_status' = "returned"
    /\ tr_pc' = tr_pc
    /\ UNCHANGED <<sizes, chamferVars, priorVars, maskVars, ckptVars, sizePredVars>>

\* eval_vae_step: forward pass with the latent's mode, no update
EvalVaeStep ==
    /\ tr_pc = "ready"
    /\ \E c \in 0..MaxLoss, k \in 0..MaxKl, finite \in BOOLEAN :
          LET chamfer == ForwardValue(Num(c, 1), finite, {"autoencoder"})
              kl == ForwardValue(Num(KLWeight * k, 1), finite, {"autoencoder"})
          IN  /\ encoded_from' = Encoded(TRUE)
              /\ chamfer_dst' = chamfer
              /\ kl_losses' = kl
              /\ model_loss' = ReconstructionLoss(chamfer, kl)
    /\ last_step' = "eval_vae"
    /\ step_status' = "returned"
    /\ UNCHANGED <<tr_pc, params, updates, moments, adam_iterations>>
    /\ UNCHANGED <<schedVars, sizes, chamferVars, priorVars, maskVars, ckptVars,
                   sizePredVars>>

\* train_size_predictor_step: encode_set outside the tape, gradient of
\* size_loss with respect to the size predictor's weights, one update
TrainSizePredictorStep ==
    /\ tr_pc = "ready"
    /\ StepsTaken < MaxTrainSteps
    /\ \E c \in 0..MaxLoss, k \in 0..MaxKl, finite \in BOOLEAN :
          LET size_loss == ForwardValue(Num(c, 1), finite, {"autoencoder", "size_predictor"})
              kl == ForwardValue(Num(KLWeight * k, 1), finite, {"autoencoder"})
          IN  /\ encoded_from' = Encoded(FALSE)
              /\ kl_losses' = kl
              /\ model_loss' = size_loss
              /\ ApplyGradientsTo("reconstruction_optimiser", "size_predictor", size_loss)
    /\ last_step' = "train_size"
    /\ step_status' = "returned"
    /\ UNCHANGED <<tr_pc, chamfer_dst>>
    /\ UNCHANGED <<sizes, chamferVars, priorVars, maskVars, ckptVars, sizePredVars>>

NextTrain == TrainVaeStep \/ EvalVaeStep \/ TrainSizePredictorStep

----------------------------------------------------------------------------
(* The model's call and encode_set: the transformer mask *)

\* Sizes are drawn from 1..(MaxSetSize + MaxExcess) where the contract on
\* Size is not assumed
MaxExcess == 1

\* tf.sequence_mask(lengths, maxlen): position p of row b holds p < lengths[b]
\* (p counted from 0), for the maxlen positions of the row
SequenceMask(lengths, maxlen) ==
    [b \in DOMAIN lengths |-> [p \in 1..maxlen |-> p <= lengths[b]]]

\* tf.cast(tf.math.logical_not(tf.sequence_mask(sizes, max_set_size)), tf.float32)
MaskedValues(sizes_in, max_set_size) ==
    [b \in DOMAIN sizes_in |->
        [p \in 1..max_set_size |->
            IF SequenceMask(sizes_in, max_set_size)[b][p] THEN 0 ELSE 1]]

IdleMask ==
    /\ mk_pc = "idle"
    /\ masked_values = <<>>

\* a batch whose Sizes the caller did not check
InitAnySizes ==
    /\ sizes \in [Batch -> 1..(MaxSetSize + MaxExcess)]
    /\ mk_pc = "start"
    /\ masked_values = <<>>
    /\ pr_pc = "start"
    /\ sampled_elements = <<>>
    /\ padded_samples = <<>>

\* encode_set (and the first statement of call): the mask of the batch
EncodeSet ==
    /\ mk_pc = "start"
    /\ masked_values' = MaskedValues(sizes, MaxSetSize)
    /\ mk_pc' = "done"
    /\ UNCHANGED <<schedVars, sizes, chamferVars, priorVars, trainVars, ckptVars,
                   sizePredVars>>

NextAnySizes == EncodeSet \/ SamplePriorBatch

----------------------------------------------------------------------------
(* OneCycleAdamW constructed with any integer *)

\* cycle lengths down to -MaxNonPositive are passed to the constructor
MaxNonPositive == 3

\* OneCycleAdamW(learning_rate, weight_decay, cl) for an int cl of any sign:
\* neither constructor inspects cycle_length
NewOneCycleAdamWAnyLength ==
    /\ opt_pc = "none"
    /\ \E cl \in (-MaxNonPositive)..MaxCycle :
          /\ cycle_length' = cl
          /\ warmup_end_step' = WarmupEnd(cl)
          /\ max_end_step' = MaxEnd(cl)
          /\ decay_end_step' = DecayEnd(cl)
    /\ beta_2' = Const(99, 100)
    /\ opt_pc' = "built"
    /\ UNCHANGED <<iterations, lr_factor, beta_1>>
    /\ UNCHANGED <<sizes, chamferVars, priorVars, trainerVars>>

NextConfig == NewOneCycleAdamWAnyLength \/ ApplyGradients

----------------------------------------------------------------------------
(* MnistVariationalAutoencoder.__init__: the checkpoint to resume from *)

\* a directory name has at most MaxNameLen characters
MaxNameLen == 3
\* a directory holds at most MaxFolders directories
MaxFolders == 2

\* characters are strings of length one
Digits == {"0", "1", "2", "3", "4", "5", "6", "7", "8", "9"}

DigitChars == <<"0", "1", "2", "3", "4", "5", "6", "7", "8", "9">>

\* int(c) of a digit
DigitValue(c) == (CHOOSE k \in 1..10 : DigitChars[k] = c) - 1

\* the characters directory names are drawn from: two digits and a non-digit
NameChars == {"1", "2", "x"}

\* the names run directories are drawn from
RunNames == UNION {[1..n -> NameChars] : n \in 1..MaxNameLen}

\* the names step directories are drawn from: save_weights writes str(step)
StepNames == UNION {[1..n -> NameChars \cap Digits] : n \in 1..(MaxNameLen - 1)}

\* the steps a caller asks for; -1 asks for the latest
LoadSteps == {-1, 1, 2, 12}

\* the sequences of 1..MaxFolders different names of a set, in any order
Listings(names) ==
    {l \in UNION {[1..n -> names] : n \in 1..MaxFolders} :
        \A i, j \in DOMAIN l : l[i] = l[j] => i = j}

\* checkpoint_folder = 'logs/checkpoints/vae/'
CheckpointFolder ==
    <<"l", "o", "g", "s", "/", "c", "h", "e", "c", "k", "p", "o", "i", "n", "t", "s", "/",
      "v", "a", "e", "/">>

\* f.path of the entry called name of the directory dir (os.path.join)
EntryPath(dir, name) ==
    IF dir[Len(dir)] = "/" THEN dir \o name ELSE dir \o <<"/">> \o name

\* sub(r"\D", "", value): value without its non-digit characters
SubNonDigits(value) == SelectSeq(value, LAMBDA c : c \in Digits)

\* decimal.Decimal(digits) of a non-empty string of digits
RECURSIVE DecimalOf(_)
DecimalOf(digits) ==
    IF digits = <<>> THEN 0
    ELSE 10 * DecimalOf(SubSeq(digits, 1, Len(digits) - 1)) + DigitValue(digits[Len(digits)])

\* decimal.Decimal('') raises decimal.InvalidOperation
InvalidOperation == -1

\* extract_sortable_value(value)
ExtractSortableValue(value) ==
    LET first_value == SubNonDigits(value)
    IN  IF first_value = <<>> THEN InvalidOperation ELSE DecimalOf(first_value)

\* sorted(paths, key=extract_sortable_value)[-1]: the sort is stable, so of the
\* paths with the greatest key the last of the listing is last
LastSorted(paths) ==
    LET greatest == SeqMax([k \in DOMAIN paths |-> ExtractSortableValue(paths[k])])
        last == CHOOSE k \in DOMAIN paths :
                    /\ ExtractSortableValue(paths[k]) = greatest
                    /\ \A l \in DOMAIN paths :
                          ExtractSortableValue(paths[l]) = greatest => l <= k
    IN  paths[last]

\* the key of some path cannot be computed
SortRaises(paths) ==
    \E k \in DOMAIN paths : ExtractSortableValue(paths[k]) = InvalidOperation

\* str(n) of a non-negative int
RECURSIVE Str(_)
Str(n) ==
    IF n < 10 THEN <<DigitChars[n + 1]>>
    ELSE Str(n \div 10) \o <<DigitChars[(n % 10) + 1]>>

\* needle in haystack, on strings
Contains(haystack, needle) ==
    \E k \in 1..(Len(haystack) - Len(needle) + 1) :
        SubSeq(haystack, k, k + Len(needle) - 1) = needle

\* [x for x in step_ckpnts if str(load_step) in x]
MatchingSteps(paths, step) == SelectSeq(paths, LAMBDA x : Contains(x, Str(step)))

NoFolder == <<>>

IdleCheckpoint ==
    /\ ck_pc = "idle"
    /\ load_step = -1
    /\ run_folders = <<>>
    /\ step_ckpnts = <<>>
    /\ latest_run = NoFolder
    /\ step_folder = NoFolder

\* the trainer is constructed with load_step; the checkpoint folder holds
\* some run directories
InitCheckpoint ==
    /\ ck_pc = "start"
    /\ load_step \in LoadSteps
    /\ \E names \in Listings(RunNames) :
          run_folders = [k \in DOMAIN names |-> EntryPath(CheckpointFolder, names[k])]
    /\ step_ckpnts = <<>>
    /\ latest_run = NoFolder
    /\ step_folder = NoFolder

\* __init__ with load_step set: the latest run by extract_sortable_value, its
\* step directories, and of these the latest or the first that holds
\* str(load_step)
LoadCheckpoint ==
    /\ ck_pc = "start"
    /\ IF SortRaises(run_folders)
       THEN /\ ck_pc' = "failed"
            /\ UNCHANGED <<step_ckpnts, latest_run, step_folder>>
       ELSE /\ latest_run' = LastSorted(run_folders)
            /\ \E names \in Listings(StepNames) :
                  step_ckpnts' =
                      [k \in DOMAIN names |-> EntryPath(LastSorted(run_folders), names[k])]
            /\ IF load_step = -1
               THEN /\ step_folder' = LastSorted(step_ckpnts')
                    /\ ck_pc' = "loaded"
               ELSE IF MatchingSteps(step_ckpnts', load_step) = <<>>
                    THEN /\ step_folder' = NoFolder
                         /\ ck_pc' = "failed"
                    ELSE /\ step_folder' = MatchingSteps(step_ckpnts', load_step)[1]
                         /\ ck_pc' = "loaded"
    /\ UNCHANGED <<load_step, run_folders>>
    /\ UNCHANGED <<schedVars, sizes, chamferVars, priorVars, maskVars, trainVars,
                   sizePredVars>>

NextCheckpoint == LoadCheckpoint

----------------------------------------------------------------------------
(* size_predictor_loss *)

\* the weight the size predictor gives a Size is drawn from 1..MaxWeight; the
\* softmax output is the weight over the sum of the row's weights
MaxWeight == 3

\* tf.one_hot(indices, depth): 1 at the position of the index (from 0), 0
\* elsewhere, all 0 for an index outside 0..depth-1
OneHot(index, depth) == [k \in 1..depth |-> IF k - 1 = index THEN 1 ELSE 0]

\* tf.argmax(row): the smallest index (from 0) of the greatest value
ArgMax(row) ==
    CHOOSE i \in 0..(Len(row) - 1) :
        /\ row[i + 1] = SeqMax(row)
        /\ \A j \in 0..(i - 1) : row[j + 1] < SeqMax(row)

\* the softmax output of row at the hot position of target:
\* categorical_crossentropy is -log of this value
TargetProb(target, row) ==
    TfDiv(SumSeq([k \in DOMAIN row |-> target[k] * row[k]]), SumSeq(row))

\* faulty variant: the index is returned as the Size
PredictedSizeUnshifted(row) == ArgMax(row)

\* tf.cast(tf.argmax(pred_sizes, 1), tf.int32) + 1
PredictedSize(row) == ArgMax(row) + 1

IdleSizePredictor ==
    /\ sp_pc = "idle"
    /\ pred_sizes = <<>>
    /\ one_hot_sizes = <<>>
    /\ target_prob = <<>>
    /\ predicted_sizes = <<>>

\* a batch of Sizes and the distributions predict_size returned for it
InitSizePredictor ==
    /\ sizes \in [Batch -> 1..MaxSetSize]
    /\ pred_sizes \in [Batch -> [1..MaxSetSize -> 1..MaxWeight]]
    /\ sp_pc = "start"
    /\ one_hot_sizes = <<>>
    /\ target_prob = <<>>
    /\ predicted_sizes = <<>>

\* size_predictor_loss(embedded_sets, sizes)
SizePredictorLoss ==
    /\ sp_pc = "start"
    /\ one_hot_sizes' = [b \in Batch |-> OneHot(sizes[b] - 1, MaxSetSize)]
    /\ target_prob' =
          [b \in Batch |-> TargetProb(OneHot(sizes[b] - 1, MaxSetSize), pred_sizes[b])]
    /\ predicted_sizes' = [b \in Batch |-> PredictedSize(pred_sizes[b])]
    /\ sp_pc' = "done"
    /\ UNCHANGED <<sizes, pred_sizes>>
    /\ UNCHANGED <<schedVars, chamferVars, priorVars, maskVars, trainVars, ckptVars>>

\* the next batch of the validation set
NextSizeBatch ==
    /\ sp_pc = "done"
    /\ \E sz \in [Batch -> 1..MaxSetSize] : sizes' = sz
    /\ \E ps \in [Batch -> [1..MaxSetSize -> 1..MaxWeight]] : pred_sizes' = ps
    /\ sp_pc' = "start"
    /\ one_hot_sizes' = <<>>
    /\ target_prob' = <<>>
    /\ predicted_sizes' = <<>>
    /\ UNCHANGED <<schedVars, chamferVars, priorVars, maskVars, trainVars, ckptVars>>

NextSizePredictor == SizePredictorLoss \/ NextSizeBatch

----------------------------------------------------------------------------
(* Specifications *)

\* no part of the trainer is in use
IdleTrainer == IdleMask /\ IdleTrain /\ IdleCheckpoint /\ IdleSizePredictor

\* the optimizer alone
ScheduleInit == InitSchedule /\ IdleBatch /\ IdleChamfer /\ IdlePrior /\ IdleTrainer
SpecSchedule == ScheduleInit /\ [][NextSchedule]_vars

\* the matching loss alone
ChamferInit == InitChamfer /\ InitSchedule /\ IdlePrior /\ IdleTrainer
SpecChamfer == ChamferInit /\ [][NextChamfer]_vars

\* the seed sampler alone
PriorInit == InitPrior /\ InitSchedule /\ IdleChamfer /\ IdleTrainer
SpecPrior == PriorInit /\ [][NextPrior]_vars

\* the training and evaluation steps of one trainer
TrainInit ==
    InitTrainer /\ IdleBatch /\ IdleChamfer /\ IdlePrior /\ IdleMask /\ IdleCheckpoint
        /\ IdleSizePredictor
SpecTrain == TrainInit /\ [][NextTrain]_vars

\* the mask and the seeds of a batch of any Sizes
AnySizesInit ==
    InitAnySizes /\ InitSchedule /\ IdleChamfer /\ IdleTrain /\ IdleCheckpoint
        /\ IdleSizePredictor
SpecAnySizes == AnySizesInit /\ [][NextAnySizes]_vars

\* the optimizer constructed with any integer
ConfigInit == InitSchedule /\ IdleBatch /\ IdleChamfer /\ IdlePrior /\ IdleTrainer
SpecConfig == ConfigInit /\ [][NextConfig]_vars

\* resuming from a checkpoint
CheckpointInit ==
    InitCheckpoint /\ InitSchedule /\ IdleBatch /\ IdleChamfer /\ IdlePrior /\ IdleMask
        /\ IdleTrain /\ IdleSizePredictor
SpecCheckpoint == CheckpointInit /\ [][NextCheckpoint]_vars

\* the size predictor's loss
SizePredictorInit ==
    InitSizePredictor /\ InitSchedule /\ IdleChamfer /\ IdlePrior /\ IdleMask
        /\ IdleTrain /\ IdleCheckpoint
SpecSizePredictor == SizePredictorInit /\ [][NextSizePredictor]_vars

----------------------------------------------------------------------------
(* Claims about the one-cycle schedule *)

Built == opt_pc # "none"

\* the three phases before the tail have a positive length
PhasesNonEmpty ==
    /\ warmup_end_step > 0
    /\ max_end_step > warmup_end_step
    /\ decay_end_step > max_end_step

LrContinuous ==
    /\ REq(LrWarmup(warmup_end_step), Const(1, 1))
    /\ REq(LrMax, Const(1, 1))
    /\ REq(LrInitialDecay(max_end_step), Const(1, 1))
    /\ REq(LrInitialDecay(decay_end_step), Const(1, 10))
    /\ REq(LrFinalDecay(decay_end_step), Const(1, 10))

MomContinuous ==
    /\ REq(MomWarmup(warmup_end_step), Const(85, 100))
    /\ REq(MomMax, Const(85, 100))
    /\ REq(MomInitialDecay(max_end_step), Const(85, 100))
    /\ REq(MomInitialDecay(decay_end_step), Const(95, 100))
    /\ REq(MomFinal, Const(95, 100))

\* C6: for every positive cycle_length, at warm-up end, plateau end and decay end
\* the ending formula of the preceding phase and the starting formula of the
\* following phase give the same multiplier: 1.0, 1.0, 0.1 for the learning
\* rate and 0.85, 0.85, 0.95 for the momentum.
ScheduleContinuity == Built => (LrContinuous /\ MomContinuous)

\* the same for schedules whose phases all have a positive length
ScheduleContinuityNonEmpty == (Built /\ PhasesNonEmpty) => (LrContinuous /\ MomContinuous)

LrMonotoneAt(n) ==
    /\ (Phase(n) = "warmup" /\ Phase(n + 1) = "warmup")
          => RLeq(Schedule(n), Schedule(n + 1))
    /\ (Phase(n) = "max_lr" /\ Phase(n + 1) = "max_lr")
          => (REq(Schedule(n), Const(1, 1)) /\ REq(Schedule(n + 1), Const(1, 1)))
    /\ n > max_end_step
          => RLeq(Schedule(n + 1), Schedule(n))

\* C7: for every positive cycle_length and consecutive steps n, n+1 the
\* learning-rate multiplier is non-decreasing while both are in warm-up, equal
\* to 1.0 while both are in the plateau, and non-increasing for every step
\* after the plateau (n is the step the optimizer has reached).
ScheduleMonotone == Built => LrMonotoneAt(iterations)

\* the same for schedules whose last phase boundary is not step 0
ScheduleMonotoneNonEmpty == (Built /\ decay_end_step > 0) => LrMonotoneAt(iterations)

\* C8: for every positive cycle_length the boundaries are at 10%, 40% and 100%
\* of cycle_length, strictly increasing, and every step is in exactly one of
\* the four phases.
PhaseBoundaries ==
    Built =>
        /\ 10 * warmup_end_step = cycle_length
        /\ 10 * max_end_step = 4 * cycle_length
        /\ decay_end_step = cycle_length
        /\ warmup_end_step < max_end_step
        /\ max_end_step < decay_end_step
        /\ Phase(iterations) \in {"warmup", "max_lr", "initial_decay", "final_decay"}
        /\ Phase(iterations) = "warmup" <=> iterations <= warmup_end_step
        /\ Phase(iterations) = "max_lr"
              <=> (warmup_end_step < iterations /\ iterations <= max_end_step)
        /\ Phase(iterations) = "initial_decay"
              <=> (max_end_step < iterations /\ iterations <= decay_end_step)
        /\ Phase(iterations) = "final_decay" <=> decay_end_step < iterations

\* what the constructor computes for any cycle_length: the truncated shares
PhaseBoundariesTruncated ==
    Built =>
        /\ warmup_end_step = cycle_length \div 10
        /\ max_end_step = warmup_end_step + (3 * cycle_length) \div 10
        /\ decay_end_step = max_end_step + (6 * cycle_length) \div 10
        /\ warmup_end_step <= max_end_step
        /\ max_end_step <= decay_end_step
        /\ (cycle_length % 10 = 0) =>
              /\ 10 * warmup_end_step = cycle_length
              /\ 10 * max_end_step = 4 * cycle_length
              /\ decay_end_step = cycle_length
              /\ warmup_end_step < max_end_step
              /\ max_end_step < decay_end_step

\* m is the value v0 + (v1 - v0) * (n - n0) / (n1 - n0) of the line through
\* (n0, v0) and (n1, v1), stated without dividing
OnLine(m, n, n0, v0, n1, v1) ==
    /\ IsNum(m)
    /\ n1 > n0
    /\ m.num * v0.den * v1.den * (n1 - n0)
         = m.den * (v0.num * v1.den * (n1 - n) + v1.num * v0.den * (n - n0))

MomShapeAt(n) ==
    LET m == GetMomentum(n)
    IN  /\ Phase(n) = "warmup"
              => OnLine(m, n, 0, Const(95, 100), warmup_end_step, Const(85, 100))
        /\ Phase(n) = "max_lr" => REq(m, Const(85, 100))
        /\ Phase(n) = "initial_decay"
              => OnLine(m, n, max_end_step, Const(85, 100), decay_end_step, Const(95, 100))
        /\ Phase(n) = "final_decay" => REq(m, Const(95, 100))
        /\ RLeq(Const(85, 100), m)
        /\ RLeq(m, Const(95, 100))

\* C9: at every step get_momentum is the ramp 0.95 -> 0.85 over warm-up, 0.85
\* over the plateau, the ramp 0.85 -> 0.95 over primary decay and 0.95 after;
\* the first-moment coefficient of every update is within [0.85, 0.95] and the
\* second-moment coefficient is fixed.
MomentumShape ==
    Built =>
        /\ MomShapeAt(iterations)
        /\ iterations > 0 => (RLeq(Const(85, 100), beta_1) /\ RLeq(beta_1, Const(95, 100)))
        /\ REq(beta_2, Const(99, 100))

\* the same for schedules whose warm-up has a positive length
MomentumShapeNonEmpty ==
    (Built /\ warmup_end_step > 0) =>
        /\ MomShapeAt(iterations)
        /\ iterations > 0 => (RLeq(Const(85, 100), beta_1) /\ RLeq(beta_1, Const(95, 100)))
        /\ REq(beta_2, Const(99, 100))

----------------------------------------------------------------------------
(* Claims about prob_chamfer_distance *)

Called == ch_pc = "done"

\* the valid positions of item b
Valid(b) == 1..sizes[b]

\* the best score of target element i of item b over its valid predicted elements
BestOfRow(b, i) ==
    CHOOSE m \in {elem_log_prob[b][i][j] : j \in Valid(b)} :
        \A j \in Valid(b) : elem_log_prob[b][i][j] <= m

\* the best score of predicted element j of item b over its valid target elements
BestOfColumn(b, j) ==
    CHOOSE m \in {elem_log_prob[b][i][j] : i \in Valid(b)} :
        \A i \in Valid(b) : elem_log_prob[b][i][j] <= m

\* mean of the row bests plus mean of the column bests, over the valid block
Expected(b) ==
    RAdd(Num(SumSeq([i \in Valid(b) |-> BestOfRow(b, i)]), sizes[b]),
         Num(SumSeq([j \in Valid(b) |-> BestOfColumn(b, j)]), sizes[b]))

\* C1: for every item, with any Sizes in the batch, the returned distance is
\* the mean over valid i of the best score of row i plus the mean over valid j
\* of the best score of column j, of that item's own valid Size x Size block.
ChamferIsBidirectionalMean ==
    Called => \A b \in Batch : loss[b] = Expected(b)

\* a batch of items of different Sizes whose larger item has unequal directions
ChamferMixedSizes ==
    /\ Called
    /\ \E b, c \in Batch :
          /\ sizes[b] < sizes[c]
          /\ loss[c] = Expected(c)
          /\ loss[c].den > 1
          /\ \E i \in 1..MaxSetSize, j \in 1..MaxSetSize :
                Padded(b, i, j) /\ elem_log_prob[b][i][j] > BestOfRow(b, 1)

\* C2: after the scores of padded target or prediction elements of any item
\* changed, every item's distance is what it was before the change.
PaddingInsensitive ==
    (Called /\ op = "perturb") => loss = prev_loss

\* the changed batch holds a padded score above every valid score of its item
PaddingPerturbed ==
    /\ Called
    /\ op = "perturb"
    /\ prev_loss # NoLoss
    /\ \E b \in Batch :
          \E i \in 1..MaxSetSize, j \in 1..MaxSetSize :
              /\ Padded(b, i, j)
              /\ \A k \in Valid(b), l \in Valid(b) :
                    elem_log_prob[b][i][j] > elem_log_prob[b][k][l]

\* C3: after the valid target elements of an item and, independently, its
\* valid predicted elements were put in another order, the distances are what
\* they were before.
PermutationInvariant ==
    (Called /\ op = "permute") => loss = prev_loss

\* the reordered item has two different rows and two different columns, so the
\* reordering moved scores
PermutedUnequalRows ==
    /\ Called
    /\ op = "permute"
    /\ prev_loss # NoLoss
    /\ \E b \in Batch :
          /\ sizes[b] >= 2
          /\ elem_log_prob[b][1][1] # elem_log_prob[b][1][2]
          /\ elem_log_prob[b][1][1] # elem_log_prob[b][2][1]
          /\ elem_log_prob[b][2][2] # elem_log_prob[b][1][1]

\* every valid element's self-score is the greatest of its row and of its column
SelfScoreGreatest(b) ==
    \A i \in Valid(b), j \in Valid(b) :
        /\ elem_log_prob[b][i][j] <= elem_log_prob[b][i][i]
        /\ elem_log_prob[b][j][i] <= elem_log_prob[b][i][i]

MeanSelfScore(b) == Num(SumSeq([i \in Valid(b) |-> elem_log_prob[b][i][i]]), sizes[b])

\* C4: when every valid element's self-score is the greatest of its row and of
\* its column (the target is the predicted means), the item's distance is
\* twice the mean of its self-scores.
SelfMatch ==
    Called =>
        \A b \in Batch :
            SelfScoreGreatest(b) => loss[b] = RMul(Num(2, 1), MeanSelfScore(b))

\* an item of at least two elements matched against itself, other scores lower
SelfMatchReached ==
    /\ Called
    /\ \E b \in Batch :
          /\ sizes[b] >= 2
          /\ SelfScoreGreatest(b)
          /\ \A i \in Valid(b) : elem_log_prob[b][i][i] > 0
          /\ \E i \in Valid(b), j \in Valid(b) :
                elem_log_prob[b][i][j] < elem_log_prob[b][i][i]
          /\ loss[b] = RMul(Num(2, 1), MeanSelfScore(b))

\* both target elements of the Size-2 item b score a under prediction 0 and bb
\* under prediction 1
TwinTargets(b, a, bb) ==
    /\ sizes[b] = 2
    /\ \A i \in 1..2 : elem_log_prob[b][i][1] = a /\ elem_log_prob[b][i][2] = bb

\* C5: for a Size-2 item whose rows are both [a, b] with a >= b the distance is
\* a + (a + b)/2: target-to-prediction gives a, prediction-to-target (a + b)/2.
DirectionalImbalance ==
    Called =>
        \A b \in Batch : \A a \in Scores, bb \in Scores :
            (TwinTargets(b, a, bb) /\ a >= bb)
                => loss[b] = RAdd(Num(a, 1), Num(a + bb, 2))

\* twin targets with an outlier prediction: the two directions differ
ImbalanceReached ==
    /\ Called
    /\ \E b \in Batch : \E a \in Scores, bb \in Scores :
          /\ TwinTargets(b, a, bb)
          /\ a > bb
          /\ loss[b] = RAdd(Num(a, 1), Num(a + bb, 2))
          /\ loss[b] # Num(2 * a, 1)

\* the ragged tensor prob_chamfer_distance builds for the batch
RaggedLogProbs ==
    FromTensor(Trim(StackProbs([i \in 1..MaxSetSize |-> SetProb(elem_log_prob, i)],
                               MaxSetSize),
                    SeqMax(sizes)),
               sizes, RowSizes(sizes))

\* C17: with Sizes in 1..max_size no row, column or vector a maximum or a mean
\* is taken over is empty, and for an item of Size 1, whatever the other
\* items' Sizes, each directional reduction is over exactly one value and the
\* distance is twice the score of its only target under its only prediction.
SingleElementItem ==
    Called =>
        /\ ~RaggedLogProbs.error
        /\ \A r \in DOMAIN RaggedLogProbs.inner : RaggedLogProbs.inner[r] >= 1
        /\ \A b \in Batch :
              /\ RaggedLogProbs.outer[b] >= 1
              /\ ReduceMaxLast(RaggedLogProbs).row_lengths[b] >= 1
              /\ ReduceMaxRows(RaggedLogProbs).row_lengths[b] >= 1
              /\ IsNum(loss[b])
        /\ \A b \in Batch :
              sizes[b] = 1 =>
                  /\ RaggedLogProbs.outer[b] = 1
                  /\ RaggedLogProbs.inner[ItemRowStart(RaggedLogProbs, b) + 1] = 1
                  /\ ReduceMaxLast(RaggedLogProbs).row_lengths[b] = 1
                  /\ ReduceMaxRows(RaggedLogProbs).row_lengths[b] = 1
                  /\ loss[b] = Num(2 * elem_log_prob[b][1][1], 1)

\* an item of Size 1 next to a larger item, with a padded score above its own
SingleElementBesideLarger ==
    /\ Called
    /\ \E b, c \in Batch :
          /\ sizes[b] = 1
          /\ sizes[c] > 1
          /\ elem_log_prob[b][1][2] > elem_log_prob[b][1][1]
          /\ elem_log_prob[b][2][1] > elem_log_prob[b][1][1]
          /\ loss[b] = Num(2 * elem_log_prob[b][1][1], 1)

----------------------------------------------------------------------------
(* Claims about sample_prior_batch *)

\* the number of samples that precede item b's
FlatOffset(b) == SumSeq([c \in 1..(b - 1) |-> sizes[c]])

\* C10: sample_prior_batch draws sum(Size) samples and returns a tensor of
\* BatchSize rows of max_set_size positions; item b's positions below Size[b]
\* hold the samples FlatOffset(b) .. FlatOffset(b) + Size[b] - 1 in order, so
\* every sample is at exactly one position, and every position from Size[b] on
\* holds the Pad value, which is not zero.
SeedScatter ==
    pr_pc = "done" =>
        /\ Len(sampled_elements) = SumSeq(sizes)
        /\ DOMAIN padded_samples = Batch
        /\ \A b \in Batch :
              /\ DOMAIN padded_samples[b] = 1..MaxSetSize
              /\ \A p \in 1..MaxSetSize :
                    IF p <= sizes[b]
                    THEN padded_samples[b][p] = sampled_elements[FlatOffset(b) + p]
                    ELSE padded_samples[b][p] = PadValue
        /\ \A k \in 1..Len(sampled_elements) :
              Cardinality({bp \in Batch \X (1..MaxSetSize) :
                              bp[2] <= sizes[bp[1]] /\ FlatOffset(bp[1]) + bp[2] = k}) = 1
        /\ PadValue # 0

\* a batch of different Sizes with padding, whose first item's samples differ
\* from the second item's
SeedScatterReached ==
    /\ pr_pc = "done"
    /\ \E b, c \in Batch :
          /\ b < c
          /\ sizes[b] < MaxSetSize
          /\ sizes[b] # sizes[c]
          /\ padded_samples[b][MaxSetSize] = PadValue
          /\ padded_samples[b][1] # padded_samples[c][1]
          /\ \E p \in 1..sizes[c] : padded_samples[c][p] = 0

----------------------------------------------------------------------------
(* Claims about the training steps *)

\* the optimizer instance constructed for a partition
OwnOptimiser(p) ==
    CASE p = "autoencoder" -> "reconstruction_optimiser"
      [] p = "prior" -> "prior_optimiser"
      [] p = "size_predictor" -> "size_pred_optimiser"

\* C11: after any sequence of train_vae_step and train_size_predictor_step no
\* optimizer instance holds moments for two partitions, the weights of a
\* partition have been written by its own optimizer only, and the one-cycle
\* optimizer's iteration counter is the number of autoencoder updates.
OptimizerOwnership ==
    /\ \A o \in Optimisers : Cardinality(Slots(o)) <= 1
    /\ \A o \in Optimisers : \A p \in Slots(o) : o = OwnOptimiser(p)
    /\ \A p \in Partitions : updates[p] > 0 => p \in Slots(OwnOptimiser(p))
    /\ iterations = updates["autoencoder"]

\* C12: a training step whose loss is not finite is surfaced as failed and
\* changes no weight, no moment and no iteration counter.
AllOrNothingStep ==
    [][(last_step' \in {"train_vae", "train_size"} /\ ~IsNum(model_loss'))
          => /\ step_status' = "raised"
             /\ params' = params
             /\ updates' = updates
             /\ moments' = moments
             /\ iterations' = iterations
             /\ adam_iterations' = adam_iterations]_vars

\* C16: the scalar train_vae_step differentiates is the Chamfer loss plus the
\* weighted KL term the encoder registered; training uses a sample of the
\* latent and evaluation its mode.
KlInObjective ==
    /\ (last_step = "train_vae" /\ IsNum(model_loss))
          => /\ REq(model_loss, RAdd(chamfer_dst, kl_losses))
             /\ encoded_from = "sample"
    /\ last_step = "eval_vae" => encoded_from = "mode"

\* what holds of the steps: evaluation reads the latent's mode and training
\* a sample, and the scalar differentiated is the Chamfer loss alone
ChamferAloneInObjective ==
    /\ last_step = "train_vae" => (model_loss = chamfer_dst /\ encoded_from = "sample")
    /\ last_step = "eval_vae" => (model_loss = chamfer_dst /\ encoded_from = "mode")

----------------------------------------------------------------------------
(* Claims about the Size contract *)

\* C13: for a batch with an item of Size above max_set_size neither the mask
\* nor the padded seed tensor is ever returned.
OversizeFailsFast ==
    (\E b \in Batch : sizes[b] > MaxSetSize) => (mk_pc # "done" /\ pr_pc # "done")

----------------------------------------------------------------------------
(* Claims about the optimizer's configuration *)

\* C14: every constructed schedule has a positive cycle_length, and at the
\* step it has reached neither multiplier divides by zero.
ConfigurationChecked ==
    opt_pc # "none" =>
        /\ cycle_length > 0
        /\ IsNum(Schedule(iterations))
        /\ IsNum(GetMomentum(iterations))

----------------------------------------------------------------------------
(* Claims about checkpoint selection *)

\* the name of a run directory and of a step directory of the latest run
RunName(path) == SubSeq(path, Len(CheckpointFolder) + 1, Len(path))
StepName(path) == SubSeq(path, Len(latest_run) + 2, Len(path))

\* the value of the first maximal run of digits of a name that has a digit
FirstNumber(name) ==
    LET first == CHOOSE k \in DOMAIN name :
                     name[k] \in Digits /\ \A l \in 1..(k - 1) : name[l] \notin Digits
        last == CHOOSE k \in first..Len(name) :
                    /\ \A l \in first..k : name[l] \in Digits
                    /\ (k = Len(name) \/ name[k + 1] \notin Digits)
    IN  DecimalOf(SubSeq(name, first, last))

\* C15: the run loaded from has the greatest first number of all run
\* directories' names; the step directory loaded is the one numbered
\* load_step, or the greatest-numbered one when load_step is -1.
CheckpointSelection ==
    ck_pc = "loaded" =>
        /\ \A k \in DOMAIN run_folders :
              FirstNumber(RunName(run_folders[k])) <= FirstNumber(RunName(latest_run))
        /\ IF load_step = -1
           THEN \A k \in DOMAIN step_ckpnts :
                    FirstNumber(StepName(step_ckpnts[k])) <= FirstNumber(StepName(step_folder))
           ELSE FirstNumber(StepName(step_folder)) = load_step

\* what the code selects for any names: a run whose digits, read as one
\* number, are greatest, and for load_step = -1 the greatest-numbered step
SelectedByAllDigits ==
    ck_pc = "loaded" =>
        /\ \A k \in DOMAIN run_folders :
              ExtractSortableValue(run_folders[k]) <= ExtractSortableValue(latest_run)
        /\ load_step = -1 =>
              \A k \in DOMAIN step_ckpnts :
                  FirstNumber(StepName(step_ckpnts[k])) <= FirstNumber(StepName(step_folder))
        /\ load_step # -1 => Contains(step_folder, Str(load_step))

----------------------------------------------------------------------------
(* Claims about size_predictor_loss *)

\* C18: for Sizes in 1..max_set_size the target of item b is the vector of
\* length max_set_size with 1 at index Size[b] - 1 and 0 elsewhere; the
\* predicted Size is the first index of the greatest predicted weight plus
\* one, within 1..max_set_size, and it is Size[b] whenever the greatest
\* weight is at the hot index alone.
SizeIndexShift ==
    sp_pc = "done" =>
        \A b \in Batch :
            /\ DOMAIN one_hot_sizes[b] = 1..MaxSetSize
            /\ \A k \in 1..MaxSetSize :
                  one_hot_sizes[b][k] = (IF k - 1 = sizes[b] - 1 THEN 1 ELSE 0)
            /\ predicted_sizes[b] \in 1..MaxSetSize
            /\ \A k \in 1..MaxSetSize :
                  /\ pred_sizes[b][k] <= pred_sizes[b][predicted_sizes[b]]
                  /\ k < predicted_sizes[b]
                        => pred_sizes[b][k] < pred_sizes[b][predicted_sizes[b]]
            /\ (\A k \in 1..MaxSetSize :
                    k # sizes[b] => pred_sizes[b][k] < pred_sizes[b][sizes[b]])
                  => predicted_sizes[b] = sizes[b]

\* an item of the greatest Size predicted exactly, beside one predicted wrongly
SizeIndexShiftReached ==
    /\ sp_pc = "done"
    /\ \E b, c \in Batch :
          /\ sizes[b] = MaxSetSize
          /\ \A k \in 1..MaxSetSize :
                k # sizes[b] => pred_sizes[b][k] < pred_sizes[b][sizes[b]]
          /\ predicted_sizes[b] = MaxSetSize
          /\ one_hot_sizes[b][MaxSetSize] = 1
          /\ predicted_sizes[c] # sizes[c]

====
